---------------------------- MODULE Spec2Model ----------------------------
(***************************************************************************)
(* Connection pool, operation locks and session identity of mrt-meds.      *)
(*                                                                         *)
(*   src/src/services/db/connectionManager.ts   ConnectionManager,         *)
(*                                              SessionManager             *)
(*   src/src/services/db/concurrencyManager.ts  ConcurrencyManager,        *)
(*                                              withLock                   *)
(*   src/src/services/db/database.ts            MRTMedsDatabase            *)
(*   src/src/services/backupService.ts          exportDatabase,            *)
(*                                              importDatabase             *)
(*                                                                         *)
(* One JavaScript context (one tab) is modelled.  Every async function is  *)
(* cut at its await points: the code between two awaits runs without       *)
(* interruption and is one action.  Time is the value of Date.now() in     *)
(* milliseconds.                                                           *)
(***************************************************************************)
EXTENDS Integers, Sequences, FiniteSets, Bags, TLC

VARIABLES
    now,                    \* Date.now()
    indexedDB,              \* window.indexedDB is present (fixed by the environment)
    connections,            \* ConnectionManager.connections: session -> connection object
    conns,                  \* the DatabaseConnection objects ever created, by identity
    initializationPromise,  \* ConnectionManager.initializationPromise
    promises,               \* the promises performInitialization has returned
    calls,                  \* the bag of pool calls suspended at an await
    issued,                 \* API calls of the active sessions so far
    filled,                 \* calls of the background sessions so far
    used,                   \* the active sessions 1..used have made a call
    ticks,                  \* clock advances so far (bounded by MaxTicks)
    cleared,                \* history: initializationPromise was set back to null
    ev,                     \* history: what the last step did, as its caller sees it
    activeLocks,            \* ConcurrencyManager.activeLocks: operation -> lock
    running,                \* the bag of withLock calls suspended in their function
    sessionId,              \* SessionManager.sessionId (0 is null)
    stored,                 \* sessionStorage item 'mrt-meds-session-id' (0 is absent)
    storage,                \* typeof sessionStorage !== 'undefined'
    nextId,                 \* the next session id getSessionId generates
    freed,                  \* history: who released each operation's lock last
    expect,                 \* history: the id persisted when the page was reloaded
    store,                  \* the IndexedDB database 'MRTMedsDB': table -> primary keys
    file                    \* the backup file the last export wrote

poolVars == <<indexedDB, connections, conns, initializationPromise, promises,
              calls, filled, used, cleared>>

lockVars == <<activeLocks, running, sessionId, stored, storage, nextId, freed, expect>>

dataVars == <<store, file>>

vars == <<now, issued, ticks, ev, poolVars, lockVars, dataVars>>

---------------------------------------------------------------------------
(* Program constants *)

maxConnections == 10
connectionTimeout == 30 * 60 * 1000
openTimeout == 10000
lockTimeout == 5 * 60 * 1000
Operations == {"seed-database", "clear-all-data"}

(* Bounds of the model *)

NumActive == 2          \* sessions whose calls interleave freely
NumBackground == 9      \* sessions that only fill the pool, one after another
MaxCalls == 3           \* API calls of the active sessions in one behaviour
MaxSessionIds == 2      \* session ids the lock manager sees in one behaviour
MaxTicks == 2           \* clock advances in one behaviour

ActiveSessions == 1..NumActive
BackgroundSessions == (NumActive + 1)..(NumActive + NumBackground)
Sessions == ActiveSessions \cup BackgroundSessions
TimeSteps == {connectionTimeout \div 2}

NoConn == 0
NoPromise == 0
DeadPromise(st) == [state |-> st, conn |-> NoConn, started |-> 0]
DeadConn(db) == [sessionId |-> 0, isInitialized |-> FALSE, lastActivity |-> 0,
                db |-> db, failed |-> FALSE, returned |-> FALSE]
NoLock == [id |-> <<>>, operation |-> "", timestamp |-> 0, sessionId |-> 0,
           guarded |-> FALSE]

Tables == {"medicines", "batches", "items", "locations", "movements", "users",
           "kitChecks", "auditLogs", "settings"}
EmptyStore == [t \in Tables |-> {}]
Absent == [kind |-> "absent", recs |-> <<>>]
NoMetadata == [medicineCount |-> 0, batchCount |-> 0, itemCount |-> 0,
               locationCount |-> 0, movementCount |-> 0]
NoFile == [parses |-> FALSE, version |-> FALSE, exportType |-> "absent",
           medicines |-> Absent, batches |-> Absent, items |-> Absent,
           locations |-> Absent, movements |-> Absent, data |-> Absent,
           metadata |-> NoMetadata]

NoEv == [op |-> "none", sid |-> 0, outcome |-> "none", conn |-> NoConn]

Event(op, s, outcome, k) ==
    [op |-> op, sid |-> s, outcome |-> outcome, conn |-> k]

---------------------------------------------------------------------------
(* ConnectionManager: helpers *)

isConnectionValid(k) == now - conns[k].lastActivity < connectionTimeout

cleanupExpiredConnections ==
    [s \in Sessions |->
        IF connections[s] # NoConn /\ ~isConnectionValid(connections[s])
        THEN NoConn ELSE connections[s]]

Size(m) == Cardinality({s \in Sessions : m[s] # NoConn})

AtCapacityOffByOne(m) == Size(m) > maxConnections

AtCapacityUnchecked(m) == FALSE

AtCapacity(m) == Size(m) >= maxConnections

MustInitializeAlways == TRUE

MustInitialize == initializationPromise = NoPromise

Pending(pr) == pr.state \in {"opening", "defaults"}

Settled(p) == ~Pending(promises[p])

DeleteNothing(m, s) == m

Delete(m, s) == [m EXCEPT ![s] = NoConn]

InFlight(cs) == BagToSet(cs)

Suspend(c) == calls (+) SetToBag({c})

Resume(c) == calls (-) SetToBag({c})

(* Objects nothing refers to any more are garbage: a promise keeps only    *)
(* its outcome and a connection only the state of its store handle.        *)
LivePromise(p, ip, ps, cs) ==
    \/ p = ip
    \/ Pending(ps[p])
    \/ \E c \in InFlight(cs) : c.promise = p

LiveConn(k, m, ps, cs, e) ==
    \/ \E s \in Sessions : m[s] = k
    \/ \E c \in InFlight(cs) : c.conn = k
    \/ \E p \in DOMAIN ps : Pending(ps[p]) /\ ps[p].conn = k
    \/ e.conn = k

Commit(m, o, ip, ps, cs, e) ==
    /\ UNCHANGED <<lockVars, dataVars>>
    /\ connections' = m
    /\ initializationPromise' = ip
    /\ calls' = cs
    /\ ev' = e
    /\ promises' = [p \in DOMAIN ps |->
                      IF LivePromise(p, ip, ps, cs) THEN ps[p]
                      ELSE DeadPromise(ps[p].state)]
    /\ conns' = [k \in DOMAIN o |->
                   IF LiveConn(k, m, ps, cs, e) THEN o[k]
                   ELSE DeadConn(o[k].db)]

(* The workload.  The background sessions only keep the pool full: they    *)
(* connect one after another, each open succeeding, before anything else   *)
(* happens, or not at all.  The active sessions call in any order and      *)
(* their opens may fail.  Session ids are only ever compared for equality, *)
(* so the active sessions are taken into use in the order of their numbers.*)
BackgroundSettled ==
    /\ filled \in {0, NumBackground}
    /\ \A c \in InFlight(calls) : c.sid \notin BackgroundSessions

MayCall(s) ==
    IF s \in ActiveSessions
    THEN BackgroundSettled /\ issued < MaxCalls /\ s <= used + 1
    ELSE /\ indexedDB
         /\ issued = 0 /\ ticks = 0
         /\ calls = EmptyBag
         /\ s = NumActive + filled + 1

---------------------------------------------------------------------------
(* ConnectionManager.getConnection, up to its first await *)

getConnection(s) ==
    /\ MayCall(s)
    /\ issued' = IF s \in ActiveSessions THEN issued + 1 ELSE issued
    /\ filled' = IF s \in ActiveSessions THEN filled ELSE filled + 1
    /\ used' = IF s \in ActiveSessions /\ s > used THEN s ELSE used
    /\ UNCHANGED <<now, indexedDB, ticks, cleared>>
    /\ LET existing == connections[s]
           purged == cleanupExpiredConnections
           k == Len(conns) + 1
           p == Len(promises) + 1
           fresh == [sessionId |-> s, isInitialized |-> FALSE,
                     lastActivity |-> now, db |-> "new", failed |-> FALSE,
                     returned |-> FALSE]
           suspended(awaited) == Suspend([kind |-> "getConnection", sid |-> s,
                                          conn |-> k, promise |-> awaited])
       IN
       IF existing # NoConn /\ isConnectionValid(existing)
       THEN \* lines 47-51: refresh and return the tracked connection
            Commit(connections,
                   [conns EXCEPT ![existing].lastActivity = now,
                                 ![existing].returned = TRUE],
                   initializationPromise, promises, calls,
                   Event("getConnection", s, "ok", existing))
       ELSE IF AtCapacity(purged)
       THEN \* lines 54-59: purge, then fail on the limit
            Commit(purged, conns, initializationPromise, promises, calls,
                   Event("getConnection", s, "maxConnections", NoConn))
       ELSE IF ~MustInitialize
       THEN \* lines 61-76, 86-90: track the connection, await the memoized promise
            Commit([purged EXCEPT ![s] = k], Append(conns, fresh),
                   initializationPromise, promises,
                   suspended(initializationPromise),
                   Event("getConnection", s, "pending", k))
       ELSE IF indexedDB
       THEN \* lines 87, 98-112: start performInitialization, which calls db.open()
            Commit([purged EXCEPT ![s] = k],
                   Append(conns, [fresh EXCEPT !.db = "opening"]),
                   p,
                   Append(promises,
                          [state |-> "opening", conn |-> k, started |-> now]),
                   suspended(p),
                   Event("getConnection", s, "pending", k))
       ELSE \* lines 102-104, 119-133: performInitialization throws before its
            \* first await; its catch block runs, and then line 87 stores the
            \* rejected promise it returned
            Commit(Delete(purged, s), Append(conns, fresh),
                   p,
                   Append(promises,
                          [state |-> "rejected", conn |-> k, started |-> now]),
                   suspended(p),
                   Event("getConnection", s, "pending", k))

(* ConnectionManager.initializeConnection after `await initializationPromise` *)
initializeConnection(c) ==
    /\ c.kind = "getConnection"
    /\ Settled(c.promise)
    /\ UNCHANGED <<now, indexedDB, issued, filled, used, ticks, cleared>>
    /\ LET k == c.conn
           done == Resume(c)
       IN
       IF promises[c.promise].state = "fulfilled"
       THEN Commit(connections,
                   [conns EXCEPT ![k].isInitialized = TRUE, ![k].returned = TRUE],
                   initializationPromise, promises, done,
                   Event("getConnection", c.sid, "ok", k))
       ELSE Commit(connections, [conns EXCEPT ![k].failed = TRUE],
                   initializationPromise, promises, done,
                   Event("getConnection", c.sid, "initFailed", k))

---------------------------------------------------------------------------
(* ConnectionManager.performInitialization, after its await points *)

(* lines 112-116: the open wins the race; initializeDefaults is called *)
openResolved(p) ==
    /\ promises[p].state = "opening"
    /\ conns[promises[p].conn].db = "opening"
    /\ UNCHANGED <<now, indexedDB, issued, filled, used, ticks, cleared>>
    /\ Commit(connections, [conns EXCEPT ![promises[p].conn].db = "open"],
              initializationPromise, [promises EXCEPT ![p].state = "defaults"],
              calls, NoEv)

(* lines 119-133: the catch block *)
InitializationFailed(p, o) ==
    /\ cleared' = (cleared \/ initializationPromise # NoPromise)
    /\ UNCHANGED <<now, indexedDB, issued, filled, used, ticks>>
    /\ Commit(Delete(connections, conns[promises[p].conn].sessionId), o,
              NoPromise, [promises EXCEPT ![p].state = "rejected"], calls, NoEv)

(* line 112: db.open() rejects *)
openRejected(p) ==
    /\ promises[p].state = "opening"
    /\ conns[promises[p].conn].sessionId \in ActiveSessions
    /\ InitializationFailed(p, [conns EXCEPT ![promises[p].conn].db =
                                   IF @ = "opening" THEN "failed" ELSE @])

(* line 109: the timer of the race is due *)
TimerDue(p) ==
    promises[p].state = "opening" /\ now - promises[p].started >= openTimeout

(* lines 108-112: the 10 s timer wins the race; the open is not cancelled *)
openTimedOut(p) ==
    /\ TimerDue(p)
    /\ InitializationFailed(p, conns)

(* lines 116-117: initializeDefaults returns (it catches its own errors) *)
initializeDefaults(p) ==
    /\ promises[p].state = "defaults"
    /\ UNCHANGED <<now, indexedDB, issued, filled, used, ticks, cleared>>
    /\ Commit(connections, conns, initializationPromise,
              [promises EXCEPT ![p].state = "fulfilled"], calls, NoEv)

---------------------------------------------------------------------------
(* ConnectionManager.closeConnection *)

closeConnection(s) ==
    /\ s \in ActiveSessions
    /\ MayCall(s)
    /\ issued' = issued + 1
    /\ used' = IF s > used THEN s ELSE used
    /\ UNCHANGED <<now, indexedDB, filled, ticks, cleared>>
    /\ LET k == connections[s] IN
       IF k = NoConn
       THEN Commit(connections, conns, initializationPromise, promises, calls,
                   Event("closeConnection", s, "ok", NoConn))
       ELSE \/ \* db.close() returns: suspend at the await of line 169
               Commit(connections, [conns EXCEPT ![k].db = "closed"],
                      initializationPromise, promises,
                      Suspend([kind |-> "closeConnection", sid |-> s, conn |-> k,
                               promise |-> NoPromise]),
                      Event("closeConnection", s, "pending", k))
            \/ \* db.close() throws: lines 171-175 run at once
               Commit(Delete(connections, s),
                      [conns EXCEPT ![k].db = "closeFailed"],
                      initializationPromise,
                      promises, calls, Event("closeConnection", s, "ok", k))

(* lines 173-175: the finally block *)
closeConnectionFinally(c) ==
    /\ c.kind = "closeConnection"
    /\ UNCHANGED <<now, indexedDB, issued, filled, used, ticks, cleared>>
    /\ Commit(Delete(connections, c.sid), conns, initializationPromise,
              promises, Resume(c),
              Event("closeConnection", c.sid, "ok", c.conn))

(* ConnectionManager.closeAllConnections (and cleanup, which only calls    *)
(* it): lines 183-186 call closeConnection for every key, each of which    *)
(* closes its handle and suspends                                          *)
closeAllConnections ==
    /\ BackgroundSettled
    /\ issued < MaxCalls
    /\ issued' = issued + 1
    /\ UNCHANGED <<now, indexedDB, filled, used, ticks, cleared>>
    /\ LET closing == {connections[s] : s \in Sessions} \ {NoConn} IN
       Commit(connections,
              [k \in DOMAIN conns |->
                 IF k \in closing THEN [conns[k] EXCEPT !.db = "closed"]
                 ELSE conns[k]],
              initializationPromise, promises,
              Suspend([kind |-> "closeAllConnections", sid |-> 0, conn |-> NoConn,
                       promise |-> NoPromise]),
              Event("closeAllConnections", 0, "pending", NoConn))

(* lines 173-175 for every key, then lines 188-190 *)
closeAllConnectionsClear(c) ==
    /\ c.kind = "closeAllConnections"
    /\ cleared' = (cleared \/ initializationPromise # NoPromise)
    /\ UNCHANGED <<now, indexedDB, issued, filled, used, ticks>>
    /\ Commit([s \in Sessions |-> NoConn], conns, NoPromise, promises,
              Resume(c),
              Event("closeAllConnections", 0, "ok", NoConn))

(* ConnectionManager.resetInitialization *)
resetInitialization ==
    /\ BackgroundSettled
    /\ issued < MaxCalls
    /\ issued' = issued + 1
    /\ cleared' = (cleared \/ initializationPromise # NoPromise)
    /\ UNCHANGED <<now, indexedDB, filled, used, ticks>>
    /\ Commit(connections, conns, NoPromise, promises, calls,
              Event("resetInitialization", 0, "ok", NoConn))

(* The clock.  A timer that is due fires before more time passes. *)
AdvanceTime(d) ==
    /\ BackgroundSettled
    /\ \A p \in DOMAIN promises : ~TimerDue(p)
    /\ ticks < MaxTicks
    /\ ticks' = ticks + 1
    /\ now' = now + d
    /\ UNCHANGED <<indexedDB, issued, filled, used, cleared>>
    /\ Commit(connections, conns, initializationPromise, promises, calls, NoEv)

---------------------------------------------------------------------------
Constructed ==
    /\ now = 0
    /\ connections = [s \in Sessions |-> NoConn]
    /\ conns = <<>>
    /\ initializationPromise = NoPromise
    /\ promises = <<>>
    /\ calls = EmptyBag
    /\ issued = 0
    /\ filled = 0
    /\ used = 0
    /\ ticks = 0
    /\ cleared = FALSE
    /\ ev = NoEv
    /\ activeLocks = [o \in Operations |-> NoLock]
    /\ running = EmptyBag
    /\ sessionId = 0
    /\ stored = 0
    /\ nextId = 1
    /\ freed = [o \in Operations |-> 0]
    /\ expect = 0
    /\ file = NoFile

Init == Constructed /\ indexedDB \in BOOLEAN /\ storage = TRUE /\ store = EmptyStore

Next ==
    \/ \E s \in Sessions : getConnection(s)
    \/ \E c \in InFlight(calls) : initializeConnection(c)
    \/ \E p \in DOMAIN promises : openResolved(p)
    \/ \E p \in DOMAIN promises : openRejected(p)
    \/ \E p \in DOMAIN promises : openTimedOut(p)
    \/ \E p \in DOMAIN promises : initializeDefaults(p)
    \/ \E s \in Sessions : closeConnection(s)
    \/ \E c \in InFlight(calls) : closeConnectionFinally(c)
    \/ closeAllConnections
    \/ \E c \in InFlight(calls) : closeAllConnectionsClear(c)
    \/ resetInitialization
    \/ \E d \in TimeSteps : AdvanceTime(d)

Spec == Init /\ [][Next]_vars

---------------------------------------------------------------------------
(* SessionManager *)

SessionIds == 1..MaxSessionIds
LockTimeSteps == {lockTimeout \div 2}

LockEvent(op, name, s, outcome, was) ==
    [op |-> op, name |-> name, sid |-> s, outcome |-> outcome, was |-> was]

(* SessionManager.getSessionId: the id it returns and the state it leaves *)
CanGetSessionId == sessionId # 0 \/ nextId <= MaxSessionIds

CurrentSessionId == IF sessionId # 0 THEN sessionId ELSE nextId

StoredAfterGet == IF sessionId = 0 /\ storage THEN nextId ELSE stored

UseSessionId ==
    /\ sessionId' = CurrentSessionId
    /\ stored' = StoredAfterGet
    /\ nextId' = IF sessionId = 0 THEN nextId + 1 ELSE nextId
    /\ expect' = 0

getSessionId ==
    /\ issued < MaxCalls
    /\ CanGetSessionId
    /\ issued' = issued + 1
    /\ UseSessionId
    /\ ev' = LockEvent("getSessionId", "", CurrentSessionId, "ok", expect)
    /\ UNCHANGED <<now, ticks, poolVars, dataVars, activeLocks, running, storage, freed>>

restoreSessionId ==
    /\ issued < MaxCalls
    /\ issued' = issued + 1
    /\ sessionId' = IF storage /\ stored # 0 THEN stored ELSE sessionId
    /\ ev' = LockEvent("restoreSessionId", "", IF storage THEN stored ELSE 0,
                       "ok", expect)
    /\ UNCHANGED <<now, ticks, poolVars, dataVars, activeLocks, running, stored, storage,
                   nextId, freed, expect>>

clearSession ==
    /\ issued < MaxCalls
    /\ issued' = issued + 1
    /\ sessionId' = 0
    /\ stored' = IF storage THEN 0 ELSE stored
    /\ expect' = 0
    /\ ev' = LockEvent("clearSession", "", 0, "ok", expect)
    /\ UNCHANGED <<now, ticks, poolVars, dataVars, activeLocks, running, storage, nextId,
                   freed>>

(* window.location.reload(): the page's memory is lost, sessionStorage is not *)
Reload ==
    /\ issued < MaxCalls
    /\ issued' = issued + 1
    /\ sessionId' = 0
    /\ activeLocks' = [o \in Operations |-> NoLock]
    /\ running' = EmptyBag
    /\ freed' = [o \in Operations |-> 0]
    /\ expect' = stored
    /\ ev' = LockEvent("reload", "", 0, "ok", expect)
    /\ UNCHANGED <<now, ticks, poolVars, dataVars, stored, storage, nextId>>

---------------------------------------------------------------------------
(* ConcurrencyManager *)

isLockValidAtTimeout(lock) == now - lock.timestamp <= lockTimeout

isLockValid(lock) == now - lock.timestamp < lockTimeout

HeldByAnySession(lock, s) == TRUE

HeldBySameSession(lock, s) == lock.sessionId = s

HeldByOther(lock, s) == lock.sessionId # s

cleanupExpiredLocks(locks) ==
    [o \in Operations |->
        IF locks[o] # NoLock /\ ~isLockValid(locks[o]) THEN NoLock ELSE locks[o]]

(* lines 59-64: the operation is locked by another session *)
LockHeld(locks, o, s) ==
    /\ locks[o] # NoLock
    /\ isLockValid(locks[o])
    /\ HeldByOther(locks[o], s)

(* lines 56, 67-77: the lock table acquireLock leaves when it does not throw *)
Acquired(locks, o, s, g) ==
    [cleanupExpiredLocks(locks) EXCEPT ![o] =
        [id |-> <<o, s, now>>, operation |-> o, timestamp |-> now,
         sessionId |-> s, guarded |-> g]]

ReleasedByAnyone(locks, o, s) == [locks EXCEPT ![o] = NoLock]

(* lines 91-95 *)
Released(locks, o, s) ==
    IF locks[o] # NoLock /\ locks[o].sessionId = s
    THEN [locks EXCEPT ![o] = NoLock] ELSE locks

FreedAfterRelease(o, s) ==
    IF activeLocks[o] # NoLock /\ activeLocks[o].sessionId = s
    THEN [freed EXCEPT ![o] = s] ELSE freed

acquireLock(o, s) ==
    /\ issued < MaxCalls
    /\ issued' = issued + 1
    /\ IF LockHeld(activeLocks, o, s)
       THEN /\ ev' = LockEvent("acquireLock", o, s, "lockHeld", freed[o])
            /\ UNCHANGED <<activeLocks, freed>>
       ELSE /\ activeLocks' = Acquired(activeLocks, o, s, FALSE)
            /\ freed' = [freed EXCEPT ![o] = 0]
            /\ ev' = LockEvent("acquireLock", o, s, "ok", freed[o])
    /\ UNCHANGED <<now, ticks, poolVars, dataVars, running, sessionId, stored, storage,
                   nextId, expect>>

releaseLock(o, s) ==
    /\ issued < MaxCalls
    /\ issued' = issued + 1
    /\ activeLocks' = Released(activeLocks, o, s)
    /\ freed' = FreedAfterRelease(o, s)
    /\ ev' = LockEvent("releaseLock", o, s, "ok", freed[o])
    /\ UNCHANGED <<now, ticks, poolVars, dataVars, running, sessionId, stored, storage,
                   nextId, expect>>

(* withLock, lines 184-194: take the session id, acquire, call the function *)
withLock(o) ==
    /\ issued < MaxCalls
    /\ CanGetSessionId
    /\ issued' = issued + 1
    /\ UseSessionId
    /\ LET s == CurrentSessionId IN
       IF LockHeld(activeLocks, o, s)
       THEN /\ ev' = LockEvent("withLock", o, s, "lockHeld", freed[o])
            /\ UNCHANGED <<activeLocks, running, freed>>
       ELSE /\ activeLocks' = Acquired(activeLocks, o, s, TRUE)
            /\ running' = running (+) SetToBag({[operation |-> o, sid |-> s,
                                                 since |-> now]})
            /\ freed' = [freed EXCEPT ![o] = 0]
            /\ ev' = LockEvent("withLock", o, s, "running", freed[o])
    /\ UNCHANGED <<now, ticks, poolVars, dataVars, storage>>

(* lines 197-202: the lock table the finally block leaves *)
ReleasedOnReturnOnly(locks, o, s, threw) ==
    IF threw THEN locks ELSE Released(locks, o, s)

ReleasedInFinally(locks, o, s, threw) == Released(locks, o, s)

(* withLock, lines 194-202: the function returns or throws *)
withLockDone(c, threw) ==
    /\ activeLocks' = ReleasedInFinally(activeLocks, c.operation, c.sid, threw)
    /\ freed' = FreedAfterRelease(c.operation, c.sid)
    /\ running' = running (-) SetToBag({c})
    /\ ev' = LockEvent("withLock", c.operation, c.sid,
                       IF threw THEN "threw" ELSE "returned", freed[c.operation])
    /\ UNCHANGED <<now, issued, ticks, poolVars, dataVars, sessionId, stored, storage,
                   nextId, expect>>

LockAdvanceTime(d) ==
    /\ ticks < MaxTicks
    /\ ticks' = ticks + 1
    /\ now' = now + d
    /\ ev' = NoEv
    /\ UNCHANGED <<issued, poolVars, dataVars, lockVars>>

LockNext ==
    \/ getSessionId
    \/ restoreSessionId
    \/ clearSession
    \/ Reload
    \/ \E o \in Operations, s \in SessionIds : acquireLock(o, s)
    \/ \E o \in Operations, s \in SessionIds : releaseLock(o, s)
    \/ \E o \in Operations : withLock(o)
    \/ \E c \in BagToSet(running), threw \in BOOLEAN : withLockDone(c, threw)
    \/ \E d \in LockTimeSteps : LockAdvanceTime(d)

LockInit ==
    Constructed /\ indexedDB = TRUE /\ storage \in BOOLEAN /\ store = EmptyStore

LockSpec == LockInit /\ [][LockNext]_vars

---------------------------------------------------------------------------
(* Argument validation at the entry of the public operations.  A string is *)
(* a sequence of runs: Rep("a", 3) is "aaa".                               *)

Rep(ch, n) == IF n = 0 THEN <<>> ELSE <<[ch |-> ch, n |-> n]>>

RECURSIVE Length(_)
Length(text) == IF text = <<>> THEN 0 ELSE Head(text).n + Length(Tail(text))

LowerCase == {"a", "b", "c", "d", "e", "f", "g", "h", "i", "j", "k", "l", "m",
              "n", "o", "p", "q", "r", "s", "t", "u", "v", "w", "x", "y", "z"}
UpperCase == {"A", "B", "C", "D", "E", "F", "G", "H", "I", "J", "K", "L", "M",
              "N", "O", "P", "Q", "R", "S", "T", "U", "V", "W", "X", "Y", "Z"}
Digits == {"0", "1", "2", "3", "4", "5", "6", "7", "8", "9"}

(* /^[a-zA-Z0-9\-_]+$/.test(text) *)
MatchesIdPattern(text) ==
    /\ Length(text) >= 1
    /\ \A i \in DOMAIN text :
          text[i].ch \in LowerCase \cup UpperCase \cup Digits \cup {"-", "_"}

validateSessionIdAnyLength(text) ==
    IF Length(text) = 0 THEN "Session ID must be a non-empty string"
    ELSE IF ~MatchesIdPattern(text) THEN "Session ID contains invalid characters"
    ELSE "ok"

validateSessionId(text) ==
    IF Length(text) = 0 THEN "Session ID must be a non-empty string"
    ELSE IF Length(text) < 10 \/ Length(text) > 100
    THEN "Session ID must be between 10 and 100 characters"
    ELSE IF ~MatchesIdPattern(text) THEN "Session ID contains invalid characters"
    ELSE "ok"

validateOperationName(text) ==
    IF Length(text) = 0 THEN "Operation name must be a non-empty string"
    ELSE IF Length(text) < 1 \/ Length(text) > 50
    THEN "Operation name must be between 1 and 50 characters"
    ELSE IF ~MatchesIdPattern(text) THEN "Operation name contains invalid characters"
    ELSE "ok"

(* The session ids the callers pass, each with the key it has in the maps *)
InputIds ==
    { [sid |-> 1, text |-> Rep("s", 7) \o Rep("-", 1) \o Rep("4", 12)],
      [sid |-> 2, text |-> Rep("A", 5) \o Rep("_", 1) \o Rep("z", 4)],
      [sid |-> 3, text |-> Rep("Z", 100)],
      [sid |-> 4, text |-> <<>>],
      [sid |-> 5, text |-> Rep("a", 1)],
      [sid |-> 6, text |-> Rep("a", 9)],
      [sid |-> 7, text |-> Rep("a", 101)],
      [sid |-> 8, text |-> Rep("a", 200)],
      [sid |-> 9, text |-> Rep("a", 10) \o Rep(" ", 1) \o Rep("b", 9)],
      [sid |-> 10, text |-> Rep("a", 11) \o Rep("\n", 1)] }

(* The operation names the callers pass *)
InputNames ==
    { [name |-> "seed-database",
       text |-> Rep("s", 1) \o Rep("e", 2) \o Rep("d", 1) \o Rep("-", 1)
                \o Rep("d", 1) \o Rep("a", 1) \o Rep("t", 1) \o Rep("a", 1)
                \o Rep("b", 1) \o Rep("a", 1) \o Rep("s", 1) \o Rep("e", 1)],
      [name |-> "", text |-> <<>>],
      [name |-> "x51", text |-> Rep("x", 51)],
      [name |-> "seed database",
       text |-> Rep("s", 1) \o Rep("e", 2) \o Rep("d", 1) \o Rep(" ", 1)
                \o Rep("d", 1) \o Rep("a", 1) \o Rep("t", 1) \o Rep("a", 1)
                \o Rep("b", 1) \o Rep("a", 1) \o Rep("s", 1) \o Rep("e", 1)] }

TextOf(s) == (CHOOSE i \in InputIds : i.sid = s).text

NameText(o) == (CHOOSE n \in InputNames : n.name = o).text

(* the thrown validation error: nothing but the history changes *)
Rejected(e) ==
    /\ issued < MaxCalls
    /\ issued' = issued + 1
    /\ ev' = e
    /\ UNCHANGED <<now, ticks, poolVars, dataVars, lockVars>>

getConnectionEntry(i) ==
    IF validateSessionId(i.text) = "ok"
    THEN getConnection(i.sid)
    ELSE Rejected(Event("getConnection", i.sid, "invalidArgument", NoConn))

closeConnectionEntry(i) ==
    IF validateSessionId(i.text) = "ok"
    THEN closeConnection(i.sid)
    ELSE Rejected(Event("closeConnection", i.sid, "invalidArgument", NoConn))

acquireLockEntry(n, i) ==
    IF validateOperationName(n.text) = "ok" /\ validateSessionId(i.text) = "ok"
    THEN acquireLock(n.name, i.sid)
    ELSE Rejected(LockEvent("acquireLock", n.name, i.sid, "invalidArgument", 0))

releaseLockEntry(n, i) ==
    IF validateOperationName(n.text) = "ok" /\ validateSessionId(i.text) = "ok"
    THEN releaseLock(n.name, i.sid)
    ELSE Rejected(LockEvent("releaseLock", n.name, i.sid, "invalidArgument", 0))

EntryNext ==
    \/ \E i \in InputIds : getConnectionEntry(i)
    \/ \E i \in InputIds : closeConnectionEntry(i)
    \/ \E n \in InputNames, i \in InputIds : acquireLockEntry(n, i)
    \/ \E n \in InputNames, i \in InputIds : releaseLockEntry(n, i)
    \/ \E c \in InFlight(calls) : initializeConnection(c)
    \/ \E p \in DOMAIN promises : openResolved(p)
    \/ \E p \in DOMAIN promises : initializeDefaults(p)
    \/ \E c \in InFlight(calls) : closeConnectionFinally(c)

EntryInit ==
    Constructed /\ indexedDB = TRUE /\ storage = TRUE /\ store = EmptyStore

EntrySpec == EntryInit /\ [][EntryNext]_vars

---------------------------------------------------------------------------
(* Classification of expiry dates (useExpiry.getExpiryStatus) and of stock *)
(* levels (getStockLevels).  Both are functions of their arguments and the *)
(* clock; the history variable records each call and its result.  In this  *)
(* part instants are whole seconds, not milliseconds, so that dates two    *)
(* months away stay within 32-bit integers: the code's                     *)
(* (expiry - now) / (1000 * 60 * 60 * 24) is (expiry - now) / Day here.    *)

Day == 60 * 60 * 24

MaxDays == 62           \* expiry dates lie within this many days of time 0
MaxStock == 3           \* stock counts and thresholds are at most this
MaxMedicines == 1       \* medicines in the table read by getStockLevels

NoDate == [present |-> FALSE, time |-> 0]

ExpiryDates ==
    {NoDate} \cup
    {[present |-> TRUE, time |-> d * Day + r] :
        d \in (0 - MaxDays)..MaxDays, r \in {0, 1, Day - 1}}

ClockSteps == {1, Day \div 2}

ExpiryStatus(status, days, color) ==
    [status |-> status, daysUntilExpiry |-> days, color |-> color]

getExpiryStatusExclusive(expiryDate) ==
    IF ~expiryDate.present
    THEN ExpiryStatus("good", "Infinity", "text-gray-500")
    ELSE LET daysUntilExpiry == (expiryDate.time - now) \div Day IN
         IF daysUntilExpiry < 0
         THEN ExpiryStatus("expired", daysUntilExpiry, "text-red-800 bg-red-100")
         ELSE IF daysUntilExpiry < 30
         THEN ExpiryStatus("critical", daysUntilExpiry, "text-red-600 bg-red-50")
         ELSE IF daysUntilExpiry < 60
         THEN ExpiryStatus("warning", daysUntilExpiry, "text-yellow-600 bg-yellow-50")
         ELSE ExpiryStatus("good", daysUntilExpiry, "text-green-600 bg-green-50")

(* Math.floor of the quotient is \div, which rounds towards minus infinity *)
getExpiryStatus(expiryDate) ==
    IF ~expiryDate.present
    THEN ExpiryStatus("good", "Infinity", "text-gray-500")
    ELSE LET daysUntilExpiry == (expiryDate.time - now) \div Day IN
         IF daysUntilExpiry < 0
         THEN ExpiryStatus("expired", daysUntilExpiry, "text-red-800 bg-red-100")
         ELSE IF daysUntilExpiry <= 30
         THEN ExpiryStatus("critical", daysUntilExpiry, "text-red-600 bg-red-50")
         ELSE IF daysUntilExpiry <= 60
         THEN ExpiryStatus("warning", daysUntilExpiry, "text-yellow-600 bg-yellow-50")
         ELSE ExpiryStatus("good", daysUntilExpiry, "text-green-600 bg-green-50")

(* Neither function keeps state between calls, so every call is taken from *)
(* a state in which only the clock has moved.                              *)
Idle == ev = NoEv

GetExpiryStatus(expiryDate) ==
    /\ ev' = [op |-> "getExpiryStatus", input |-> expiryDate,
              result |-> getExpiryStatus(expiryDate)]
    /\ UNCHANGED <<now, issued, ticks, poolVars, dataVars, lockVars>>

(* A row of the medicines table with the number of its available items *)
Medicines ==
    [currentStock : 0..(MaxStock + 1), minStock : 0..MaxStock, maxStock : 0..MaxStock]

MedicineTables == UNION {[1..n -> Medicines] : n \in 0..MaxMedicines}

StockStatusExcessFirst(m) ==
    IF m.currentStock > m.maxStock THEN "excess"
    ELSE IF 2 * m.currentStock <= m.minStock THEN "critical"
    ELSE IF m.currentStock <= m.minStock THEN "low"
    ELSE "ok"

(* lines 382-389; currentStock <= minStock * 0.5 is 2 * currentStock <= minStock *)
StockStatus(m) ==
    IF 2 * m.currentStock <= m.minStock THEN "critical"
    ELSE IF m.currentStock <= m.minStock THEN "low"
    ELSE IF m.currentStock > m.maxStock THEN "excess"
    ELSE "ok"

(* lines 378-380, as the fraction numerator / denominator *)
Percentage(m) ==
    IF m.maxStock > 0 THEN <<m.currentStock * 100, m.maxStock>> ELSE <<0, 1>>

StockLevel(m) ==
    [currentStock |-> m.currentStock, minStock |-> m.minStock,
     maxStock |-> m.maxStock, status |-> StockStatus(m),
     percentage |-> Percentage(m)]

getStockLevels(medicines) ==
    /\ ev' = [op |-> "getStockLevels", input |-> medicines,
              result |-> [i \in DOMAIN medicines |-> StockLevel(medicines[i])]]
    /\ UNCHANGED <<now, issued, ticks, poolVars, dataVars, lockVars>>

(* useMedicines.getOverallStatus *)
NoStock == [present |-> FALSE, value |-> 0]

StatusDates ==
    {NoDate} \cup {[present |-> TRUE, time |-> x] : x \in {0, 1, Day \div 2, Day}}

MedicinesWithStock ==
    [nearestExpiry : StatusDates, expirationDate : StatusDates,
     currentStock : {NoStock} \cup {[present |-> TRUE, value |-> c] :
                                        c \in 0..(MaxStock + 1)},
     minStock : 0..MaxStock]

(* new Date(d) < now, for a date that is there *)
IsBefore(d) == d.present /\ d.time < now

StockOnlyStatus(m) ==
    LET current == IF m.currentStock.present THEN m.currentStock.value ELSE 0
        min == m.minStock
    IN IF current = 0 THEN "Out of Stock"
       ELSE IF current < min THEN "Low Stock"
       ELSE IF 2 * current < 3 * min THEN "Warning"
       ELSE "Good"

OverallStatusStockFirst(m) ==
    IF StockOnlyStatus(m) # "Good" THEN StockOnlyStatus(m)
    ELSE IF IsBefore(m.nearestExpiry) \/ IsBefore(m.expirationDate) THEN "Expired"
    ELSE "Good"

(* lines 155-173; current < min * 1.5 is 2 * current < 3 * min *)
OverallStatus(m) ==
    LET batchExpired == IsBefore(m.nearestExpiry)
        medicineExpired == IsBefore(m.expirationDate)
        current == IF m.currentStock.present THEN m.currentStock.value ELSE 0
        min == m.minStock
    IN IF batchExpired \/ medicineExpired THEN "Expired"
       ELSE IF current = 0 THEN "Out of Stock"
       ELSE IF current < min THEN "Low Stock"
       ELSE IF 2 * current < 3 * min THEN "Warning"
       ELSE "Good"

getOverallStatus(m) ==
    /\ ev' = [op |-> "getOverallStatus", input |-> m, result |-> OverallStatus(m)]
    /\ UNCHANGED <<now, issued, ticks, poolVars, dataVars, lockVars>>

ClassifyAdvanceTime(d) ==
    /\ ticks < MaxTicks
    /\ ticks' = ticks + 1
    /\ now' = now + d
    /\ ev' = NoEv
    /\ UNCHANGED <<issued, poolVars, dataVars, lockVars>>

ClassifyNext ==
    \/ Idle /\ \E e \in ExpiryDates : GetExpiryStatus(e)
    \/ Idle /\ \E ms \in MedicineTables : getStockLevels(ms)
    \/ Idle /\ \E m \in MedicinesWithStock : getOverallStatus(m)
    \/ \E d \in ClockSteps : ClassifyAdvanceTime(d)

ClassifyInit ==
    Constructed /\ indexedDB = TRUE /\ storage = TRUE /\ store = EmptyStore

ClassifySpec == ClassifyInit /\ [][ClassifyNext]_vars

---------------------------------------------------------------------------
(* The store (services/db/database.ts), the seed (services/db/seedData.ts)
   and backup and restore (services/backupService.ts).

   A table is the set of the primary keys of its records.  A key is the pair
   <<prefix, n>> for the id `prefix-n`; a generated id (`med-<time>-<random>`)
   is a pair with a negative n, which no other record has.  BadKey is the key
   of a record whose id is not a valid IndexedDB key (a boolean, say): every
   add of it is rejected.  The functions are asynchronous, but the properties
   below are about one caller at a time, so each is one step. *)

NumFormulary == 1       \* entries of the formulary (38 in seedData.ts)
MaxRecords == 2         \* records of one table in a hand-written backup file

Key(prefix, n) == <<prefix, n>>
BadKey == <<"true">>

DefaultLocations == {Key("base", 1), Key("cabinet", 1), Key("store", 1)}

SeedLocations ==
    {Key("dm", 1), Key("dm", 2), Key("vehicle", 1), Key("vehicle", 2),
     Key("vehicle", 3), Key("vehicle", 4), Key("kit", 1), Key("kit", 2),
     Key("pouch", 1), Key("pouch", 2)}

(* Table.add: rejected when the key is invalid or already in the table *)
CanAdd(T, k) == Len(k) = 2 /\ k \notin T

(* MRTMedsDatabase.initializeDefaults *)
initializeDefaultsOf(s) ==
    [s EXCEPT !.settings = IF s.settings = {} THEN {Key("default", 1)} ELSE @,
              !.locations = IF s.locations = {} THEN DefaultLocations ELSE @,
              !.users = IF s.users = {} THEN {Key("user", 1)} ELSE @]

(* MRTMedsDatabase.clearAllData *)
clearAllDataOf(s) == EmptyStore

(* the order of the keys of a table, as toArray() returns them *)
Prefixes == <<"base", "batch", "cabinet", "default", "dm", "item", "kit", "med",
              "mov", "pouch", "store", "user", "vehicle">>

PrefixIndex(p) == CHOOSE i \in 1..Len(Prefixes) : Prefixes[i] = p

KeyBefore(a, b) ==
    \/ PrefixIndex(a[1]) < PrefixIndex(b[1])
    \/ a[1] = b[1] /\ a[2] < b[2]

RECURSIVE toArray(_)
toArray(T) ==
    IF T = {} THEN <<>>
    ELSE LET first == CHOOSE a \in T : \A b \in T \ {a} : KeyBefore(a, b)
         IN <<first>> \o toArray(T \ {first})

(* a field of a parsed backup file: missing (or falsy), a truthy value that
   cannot be iterated (a number, an object), or an array of records *)
Scalar == [kind |-> "scalar", recs |-> <<>>]
Array(recs) == [kind |-> "array", recs |-> recs]
Truthy(field) == field.kind # "absent"

BackupFile(version, exportType, medicines, batches, items, locations, movements, data, meta) ==
    [parses |-> TRUE, version |-> version, exportType |-> exportType,
     medicines |-> medicines, batches |-> batches, items |-> items,
     locations |-> locations, movements |-> movements, data |-> data,
     metadata |-> meta]

ExportedCountingItems(s, includeMovements) ==
    BackupFile(TRUE, "absent", Array(toArray(s.medicines)), Array(toArray(s.batches)),
               Array(toArray(s.items)), Array(toArray(s.locations)),
               Array(IF includeMovements THEN toArray(s.movements) ELSE <<>>), Absent,
               [medicineCount |-> Cardinality(s.medicines),
                batchCount |-> Cardinality(s.items),
                itemCount |-> Cardinality(s.items),
                locationCount |-> Cardinality(s.locations),
                movementCount |-> 0])

(* exportDatabase: the backup object it returns *)
Exported(s, includeMovements) ==
    LET medicines == toArray(s.medicines)
        batches == toArray(s.batches)
        items == toArray(s.items)
        locations == toArray(s.locations)
        movements == IF includeMovements THEN toArray(s.movements) ELSE <<>>
    IN BackupFile(TRUE, "absent", Array(medicines), Array(batches), Array(items),
                  Array(locations), Array(movements), Absent,
                  [medicineCount |-> Len(medicines), batchCount |-> Len(batches),
                   itemCount |-> Len(items), locationCount |-> Len(locations),
                   movementCount |-> Len(movements)])

(* validateBackupFile, which the restore dialog calls before importDatabase *)
validateBackupFile(f) ==
    /\ f.parses
    /\ f.version \/ f.exportType # "absent"
    /\ Truthy(f.medicines) \/ Truthy(f.data)
    /\ Truthy(f.medicines) => f.medicines.kind = "array"
    /\ Truthy(f.batches) => f.batches.kind = "array"

ImportedTables == <<"medicines", "batches", "items", "locations", "movements">>

NoneImported == [t \in {ImportedTables[i] : i \in 1..Len(ImportedTables)} |-> 0]

RECURSIVE AddEachUntilFailure(_, _)
AddEachUntilFailure(T, recs) ==
    IF recs = <<>> THEN [table |-> T, count |-> 0, errors |-> 0]
    ELSE IF ~CanAdd(T, Head(recs)) THEN [table |-> T, count |-> 0, errors |-> 1]
    ELSE LET rest == AddEachUntilFailure(T \cup {Head(recs)}, Tail(recs))
         IN [table |-> rest.table, count |-> rest.count + 1, errors |-> rest.errors]

(* one loop of the full format: each record is added in its own try/catch *)
RECURSIVE AddEach(_, _)
AddEach(T, recs) ==
    IF recs = <<>> THEN [table |-> T, count |-> 0, errors |-> 0]
    ELSE LET ok == CanAdd(T, Head(recs))
             rest == AddEach(IF ok THEN T \cup {Head(recs)} ELSE T, Tail(recs))
         IN [table |-> rest.table,
             count |-> rest.count + (IF ok THEN 1 ELSE 0),
             errors |-> rest.errors + (IF ok THEN 0 ELSE 1)]

(* the loops of the full format, from table i on; for...of over a value that
   is not iterable throws a TypeError outside every inner try *)
RECURSIVE ImportTables(_, _, _)
ImportTables(r, f, i) ==
    IF i > Len(ImportedTables) \/ r.thrown THEN r
    ELSE LET t == ImportedTables[i]
             each == AddEach(r.store[t], f[t].recs)
         IN IF ~Truthy(f[t]) THEN ImportTables(r, f, i + 1)
            ELSE IF f[t].kind = "scalar" THEN [r EXCEPT !.thrown = TRUE]
            ELSE ImportTables([r EXCEPT !.store[t] = each.table,
                                        !.imported[t] = each.count,
                                        !.errors = @ + each.errors], f, i + 1)

GeneratedKey(T, prefix) ==
    Key(prefix, 0 - (Cardinality({k \in T : k[2] < 0}) + 1))

RECURSIVE GeneratedKeys(_, _, _)
GeneratedKeys(T, prefix, n) ==
    IF n = 0 THEN T
    ELSE GeneratedKeys(T \cup {GeneratedKey(T, prefix)}, prefix, n - 1)

(* the loop of the critical format: an item is its number of batches, or -1
   when its batches field cannot be iterated *)
RECURSIVE ImportCritical(_, _)
ImportCritical(r, items) ==
    IF items = <<>> THEN r
    ELSE LET n == Head(items)
             medicines == GeneratedKeys(r.store.medicines, "med", 1)
             batches == GeneratedKeys(r.store.batches, "batch", IF n < 0 THEN 0 ELSE n)
         IN ImportCritical(
                [r EXCEPT !.store.medicines = medicines,
                          !.store.batches = batches,
                          !.imported.medicines = @ + 1,
                          !.imported.batches = @ + (IF n < 0 THEN 0 ELSE n),
                          !.errors = @ + (IF n < 0 THEN 1 ELSE 0)],
                Tail(items))

ImportFailure(s, message) ==
    [store |-> s, success |-> FALSE, message |-> message,
     imported |-> NoneImported, errors |-> 1]

WipedFirst(s, clearExisting) ==
    IF clearExisting THEN initializeDefaultsOf(clearAllDataOf(s)) ELSE s

WipedBeforeValidation(s, clearExisting) == WipedFirst(s, clearExisting)

ValidatedStore(s, clearExisting) == s

(* importDatabase: the store it leaves and the result it returns *)
ImportResult(s, f, clearExisting) ==
    IF ~f.parses THEN ImportFailure(s, "Failed to parse backup file")
    ELSE IF ~f.version \/ (~Truthy(f.medicines) /\ ~Truthy(f.data))
    THEN ImportFailure(ValidatedStore(s, clearExisting), "Invalid backup file format")
    ELSE LET start == [store |-> WipedFirst(s, clearExisting),
                       imported |-> NoneImported, errors |-> 0, thrown |-> FALSE]
             r == IF f.exportType = "critical" /\ Truthy(f.data)
                  THEN IF f.data.kind = "scalar" THEN [start EXCEPT !.thrown = TRUE]
                       ELSE ImportCritical(start, f.data.recs)
                  ELSE IF Truthy(f.medicines) THEN ImportTables(start, f, 1)
                  ELSE start
         IN IF r.thrown THEN ImportFailure(r.store, "Failed to parse backup file")
            ELSE [store |-> r.store, success |-> r.errors = 0,
                  message |-> IF r.errors = 0 THEN "Database imported successfully"
                              ELSE "Import completed with errors",
                  imported |-> r.imported, errors |-> r.errors]

(* seedDatabase: it clears medicines, batches and items, adds its locations
   with bulkAdd, which rejects when a key is already there, and then the
   formulary with numBatches batches and numItems items in all *)
SeedFails(s) == SeedLocations \cap s.locations # {}

Seeded(s, numBatches, numItems) ==
    LET emptied == [s EXCEPT !.medicines = {}, !.batches = {}, !.items = {}]
        located == [emptied EXCEPT !.locations = @ \cup SeedLocations]
    IN IF SeedFails(s) THEN located
       ELSE [located EXCEPT
                !.medicines = {Key("med", i) : i \in 1..NumFormulary},
                !.batches = {Key("batch", i) : i \in 1..numBatches},
                !.items = {Key("item", i) : i \in 1..numItems}]

(* Math.random(): 2 or 3 batches for a medicine, 3 to 5 items for a batch *)
BatchCounts == (2 * NumFormulary)..(3 * NumFormulary)
ItemCounts(numBatches) == (3 * numBatches)..(5 * numBatches)

(* the backup files a user may pick, beside the one the last export wrote *)
MedicineKeys == {Key("med", 1), BadKey}

RecordLists(keys) == UNION {[1..n -> keys] : n \in 0..MaxRecords}

FullFile(medicines, batches, items, locations, movements) ==
    BackupFile(TRUE, "absent", medicines, batches, items, locations, movements,
               Absent, NoMetadata)

CriticalFile(data, medicines) ==
    BackupFile(TRUE, "critical", medicines, Absent, Absent, Absent, Absent, data,
               NoMetadata)

InputFiles ==
    {NoFile,
     BackupFile(FALSE, "absent", Array(<<Key("med", 1)>>), Absent, Absent, Absent,
                Absent, Absent, NoMetadata),
     FullFile(Absent, Array(<<Key("batch", 1)>>), Absent, Absent, Absent),
     FullFile(Scalar, Absent, Absent, Absent, Absent),
     FullFile(Array(<<>>), Absent, Scalar, Absent, Absent),
     FullFile(Array(<<Key("med", 1)>>), Array(<<Key("batch", 1), Key("batch", 1)>>),
              Absent, Array(<<Key("base", 1), Key("dm", 1)>>),
              Array(<<Key("mov", 1)>>)),
     FullFile(Array(<<Key("med", 1)>>), Scalar, Array(<<Key("item", 1)>>), Absent,
              Absent),
     CriticalFile(Scalar, Absent),
     CriticalFile(Array(<<1, -1>>), Absent),
     CriticalFile(Absent, Array(<<Key("med", 2)>>))}
    \cup {FullFile(Array(ms), Absent, Absent, Absent, Absent) :
            ms \in RecordLists(MedicineKeys)}

StoreEvent(op, outcome) == [op |-> op, outcome |-> outcome]

StoreStep(s, e) ==
    /\ issued < MaxCalls
    /\ issued' = issued + 1
    /\ store' = s
    /\ ev' = e
    /\ UNCHANGED <<now, ticks, poolVars, lockVars>>

(* App.initApp: initializeDatabase, then the seed when no medicine is stored *)
initApp(numBatches, numItems) ==
    LET opened == initializeDefaultsOf(store)
        seeds == opened.medicines = {}
    IN /\ StoreStep(IF seeds THEN Seeded(opened, numBatches, numItems) ELSE opened,
                    StoreEvent("initApp",
                               IF seeds /\ SeedFails(opened) THEN "error" ELSE "ok"))
       /\ UNCHANGED file

(* SafeDatabaseOperations.seedDatabase *)
seedDatabase(numBatches, numItems) ==
    /\ StoreStep(Seeded(store, numBatches, numItems),
                 StoreEvent("seedDatabase",
                            IF SeedFails(store) THEN "error" ELSE "ok"))
    /\ UNCHANGED file

clearAllData ==
    /\ StoreStep(clearAllDataOf(store), StoreEvent("clearAllData", "ok"))
    /\ UNCHANGED file

exportDatabase(includeMovements) ==
    /\ StoreStep(store, StoreEvent("exportDatabase", "ok"))
    /\ file' = Exported(store, includeMovements)

importDatabase(f, clearExisting) ==
    LET result == ImportResult(store, f, clearExisting)
    IN /\ StoreStep(result.store,
                    [op |-> "importDatabase", input |-> f,
                     clearExisting |-> clearExisting, success |-> result.success,
                     message |-> result.message, imported |-> result.imported,
                     errors |-> result.errors])
       /\ UNCHANGED file

StoreNext ==
    \/ \E nb \in BatchCounts : \E ni \in ItemCounts(nb) : initApp(nb, ni)
    \/ \E nb \in BatchCounts : \E ni \in ItemCounts(nb) : seedDatabase(nb, ni)
    \/ clearAllData
    \/ \E m \in BOOLEAN : exportDatabase(m)
    \/ \E f \in InputFiles : \E c \in BOOLEAN : importDatabase(f, c)
    \/ \E c \in BOOLEAN : importDatabase(file, c)

(* the store of a new installation, or the one an earlier run of the app
   left: App.initApp seeded it *)
InstalledStores ==
    {EmptyStore} \cup
    UNION {{Seeded(initializeDefaultsOf(EmptyStore), nb, ni) : ni \in ItemCounts(nb)} :
              nb \in BatchCounts}

StoreInit ==
    Constructed /\ indexedDB = TRUE /\ storage = TRUE /\ store \in InstalledStores

StoreSpec == StoreInit /\ [][StoreNext]_vars

---------------------------------------------------------------------------
(* Properties of the connection pool *)

Tracked == {connections[s] : s \in Sessions} \ {NoConn}

DefaultsRuns ==
    Cardinality({p \in DOMAIN promises : promises[p].state \in {"defaults", "fulfilled"}})

InFlightInitializations == {p \in DOMAIN promises : Pending(promises[p])}

Returned(outcome) == ev.op = "getConnection" /\ ev.outcome = outcome

PoolFullAndValid ==
    /\ Size(connections) = maxConnections
    /\ \A k \in Tracked : isConnectionValid(k)

(* C1: as long as the memoized initialization has not been set back to     *)
(* null, initializeDefaults has run at most once however many sessions     *)
(* called getConnection, and exactly once when a caller has been handed an *)
(* initialized connection.                                                 *)
C1_BootstrapRunsOnce ==
    ~cleared =>
        /\ DefaultsRuns <= 1
        /\ (Returned("ok") /\ conns[ev.conn].isInitialized) => DefaultsRuns = 1

C1_Witness ==
    /\ ~cleared
    /\ DefaultsRuns = 1
    /\ \E c, d \in InFlight(calls) :
          /\ c.kind = "getConnection" /\ d.kind = "getConnection"
          /\ c.sid # d.sid
          /\ c.promise = d.promise
          /\ promises[c.promise].state = "fulfilled"

(* C4: the pool never tracks more than maxConnections connections, and a   *)
(* getConnection call is never suspended without a tracked connection of   *)
(* its own: at the limit it fails in the step that makes the call.         *)
C4_PoolSizeBounded ==
    /\ Size(connections) <= maxConnections
    /\ \A c \in InFlight(calls) : c.kind = "getConnection" => c.conn # NoConn
    /\ Returned("maxConnections") => Size(connections) = maxConnections

C4_Witness ==
    /\ Returned("maxConnections")
    /\ Size(connections) = maxConnections
    /\ calls # EmptyBag

(* C5: when getConnection throws because the store open was rejected or   *)
(* timed out, the connection that call created is not in the pool.         *)
C5_FailedConnectionRemoved ==
    (indexedDB /\ Returned("initFailed")) => ev.conn \notin Tracked

(* C6: after a failed store open the memoized initialization does not hold *)
(* the failed outcome, and getConnection does not return a connection left *)
(* over from a call that failed.                                           *)
C6_RetryStartsClean ==
    indexedDB =>
        /\ initializationPromise # NoPromise =>
               promises[initializationPromise].state # "rejected"
        /\ Returned("ok") => ~conns[ev.conn].failed

(* C7: at most one performInitialization is in flight. *)
C7_SingleInitialization == Cardinality(InFlightInitializations) <= 1

(* C10: a getConnection call for a session without a connection, made when *)
(* the pool tracks maxConnections valid connections, fails with the        *)
(* maximum-connections error and changes neither the tracked sessions, nor *)
(* their connections' ids and activity timestamps, nor the memoized        *)
(* initialization.                                                         *)
C10_FullPoolRejects ==
    [][(/\ ev'.op = "getConnection"
        /\ issued' = issued + 1
        /\ PoolFullAndValid
        /\ connections[ev'.sid] = NoConn)
       => (/\ ev'.outcome = "maxConnections"
           /\ connections' = connections
           /\ \A k \in Tracked : conns'[k] = conns[k]
           /\ initializationPromise' = initializationPromise)]_vars

C10_Witness ==
    /\ Returned("maxConnections")
    /\ PoolFullAndValid
    /\ ev.sid \in ActiveSessions

---------------------------------------------------------------------------
(* Properties of the lock manager and the session manager *)

Acquires(e) == e.op \in {"acquireLock", "withLock"} /\ e.outcome \in {"ok", "running", "lockHeld"}

Finished(e) == e.op = "withLock" /\ e.outcome \in {"returned", "threw"}

ExecutionsOf(o) == {c \in BagToSet(running) : c.operation = o}

Unexpired(o) == \A c \in ExecutionsOf(o) : now - c.since < lockTimeout

(* C2: while session A holds an unexpired lock for an operation name, an
   acquireLock for that name by a session B other than A fails with the
   lock-held error and changes no lock; and when the last thing that happened
   to the name's lock is that A released it, an acquireLock by B succeeds and
   leaves B the holder. *)
C2_LockExcludesOtherSessions ==
    [][\A o \in Operations, b \in SessionIds :
         (Acquires(ev') /\ issued' = issued + 1 /\ ev'.name = o /\ ev'.sid = b)
         => /\ (/\ activeLocks[o] # NoLock
                /\ now - activeLocks[o].timestamp < lockTimeout
                /\ activeLocks[o].sessionId # b)
               => (ev'.outcome = "lockHeld" /\ activeLocks' = activeLocks)
            /\ (freed[o] \notin {0, b})
               => (/\ ev'.outcome \in {"ok", "running"}
                   /\ activeLocks'[o].sessionId = b)]_vars

(* C2 happens: session B has just acquired the lock that another session A
   had held and released. *)
C2_Witness ==
    /\ ev.op = "acquireLock"
    /\ ev.outcome = "ok"
    /\ ev.was \notin {0, ev.sid}
    /\ activeLocks[ev.name].sessionId = ev.sid

(* C3: as long as no lock taken for a running execution has reached the
   5-minute timeout, at most one execution of a guarded operation is running,
   whether the executions were started by different sessions or by the same
   one. *)
C3_GuardedExecutionsExclusive ==
    \A o \in Operations :
        Unexpired(o) =>
            /\ Cardinality(ExecutionsOf(o)) <= 1
            /\ \A c \in ExecutionsOf(o) : CopiesIn(c, running) <= 1

(* C8: when a wrapped call finishes, by returning or by throwing, the lock for
   its operation is not held by the calling session; and a lock taken by a
   wrapped call is in the table only while the call that took it is running. *)
C8_LockReleasedWhenCallFinishes ==
    /\ Finished(ev) =>
          \/ activeLocks[ev.name] = NoLock
          \/ activeLocks[ev.name].sessionId # ev.sid
    /\ \A o \in Operations :
          (activeLocks[o] # NoLock /\ activeLocks[o].guarded) =>
              \E c \in ExecutionsOf(o) :
                  /\ c.sid = activeLocks[o].sessionId
                  /\ c.since = activeLocks[o].timestamp

(* C8 happens: a wrapped function has thrown, and its operation's lock is
   free. *)
C8_Witness ==
    /\ ev.op = "withLock"
    /\ ev.outcome = "threw"
    /\ activeLocks[ev.name] = NoLock

(* C9: the first getSessionId after a page reload returns the id that was in
   sessionStorage when the page was reloaded, unless clearSession was called
   in between. *)
C9_SessionIdSurvivesReload ==
    (ev.op = "getSessionId" /\ ev.was # 0) => ev.sid = ev.was

---------------------------------------------------------------------------
(* Properties of argument validation *)

AcceptableId(text) ==
    /\ Length(text) >= 10
    /\ Length(text) <= 100
    /\ \A i \in DOMAIN text :
          text[i].ch \in LowerCase \cup UpperCase \cup Digits \cup {"-", "_"}

AcceptableName(text) ==
    /\ Length(text) >= 1
    /\ Length(text) <= 50
    /\ \A i \in DOMAIN text :
          text[i].ch \in LowerCase \cup UpperCase \cup Digits \cup {"-", "_"}

PoolCalled(e) == e.op \in {"getConnection", "closeConnection"}

LockCalled(e) == e.op \in {"acquireLock", "releaseLock"}

BadArguments(e) ==
    \/ ~AcceptableId(TextOf(e.sid))
    \/ LockCalled(e) /\ ~AcceptableName(NameText(e.name))

(* C11: a call of getConnection, closeConnection, acquireLock or releaseLock
   whose session id is empty, shorter than 10 or longer than 100 characters
   or holds a character other than letters, digits, hyphen and underscore
   (or, for the lock operations, whose operation name is not 1 to 50 such
   characters) is rejected and leaves the pool and the lock table as they
   were; a call with acceptable arguments is not rejected for its
   arguments. *)
C11_InvalidArgumentsRejected ==
    [][((PoolCalled(ev') \/ LockCalled(ev'))
        /\ (issued' # issued \/ filled' # filled))
       => IF BadArguments(ev')
          THEN ev'.outcome = "invalidArgument" /\ UNCHANGED <<poolVars, lockVars>>
          ELSE ev'.outcome # "invalidArgument"]_vars

(* C11 happens: with a connection tracked and a lock held, a call with a
   200-character session id has just been rejected. *)
C11_Witness ==
    /\ ev.outcome = "invalidArgument"
    /\ Length(TextOf(ev.sid)) = 200
    /\ Size(connections) >= 1
    /\ \E o \in Operations : activeLocks[o] # NoLock

---------------------------------------------------------------------------
(* Properties of lock expiry, release and re-entry *)

AcquireCalled(e, o, s) ==
    Acquires(e) /\ issued' = issued + 1 /\ e.name = o /\ e.sid = s

ReleaseCalled(e, o, s) ==
    /\ \/ e.op = "releaseLock" /\ issued' = issued + 1
       \/ Finished(e)
    /\ e.name = o
    /\ e.sid = s

Expired(lock) == lock # NoLock /\ now - lock.timestamp >= lockTimeout

(* C12: when the lock stored for an operation has reached the 5-minute
   timeout, acquireLock for that operation by a session other than the
   lock's holder succeeds, and that session holds the operation's lock
   afterwards. *)
C12_ExpiredLockReclaimed ==
    [][\A o \in Operations, b \in SessionIds :
         (/\ AcquireCalled(ev', o, b)
          /\ Expired(activeLocks[o])
          /\ activeLocks[o].sessionId # b)
         => (/\ ev'.outcome \in {"ok", "running"}
             /\ activeLocks'[o].sessionId = b
             /\ activeLocks'[o].timestamp = now)]_vars

(* C12 happens: a wrapped call of session A took the operation's lock at
   least 5 minutes ago and is still running, nobody released that lock, and
   session B has just acquired the operation. *)
C12_Witness ==
    /\ ev.op = "acquireLock"
    /\ ev.outcome = "ok"
    /\ ev.was = 0
    /\ activeLocks[ev.name].sessionId = ev.sid
    /\ \A o \in Operations \ {ev.name} : activeLocks[o] = NoLock
    /\ \E c \in ExecutionsOf(ev.name) :
          c.sid # ev.sid /\ now - c.since >= lockTimeout

(* C13: releaseLock(operation, sessionId), called directly or by the finally
   block of a wrapped call, removes the operation's lock when sessionId
   holds it and leaves the lock table unchanged in every other case. *)
C13_ReleaseOnlyByHolder ==
    [][\A o \in Operations, s \in SessionIds :
         ReleaseCalled(ev', o, s)
         => IF activeLocks[o] # NoLock /\ activeLocks[o].sessionId = s
            THEN activeLocks' = [activeLocks EXCEPT ![o] = NoLock]
            ELSE activeLocks' = activeLocks]_vars

(* C13 happens: the wrapped call of a session has finished and released
   nothing, because another session holds the operation's lock. *)
C13_Witness ==
    /\ Finished(ev)
    /\ activeLocks[ev.name] # NoLock
    /\ activeLocks[ev.name].sessionId # ev.sid

(* C14: acquireLock by the session that holds a valid lock for the operation
   succeeds, and afterwards the operation has one lock, held by that
   session, and no other operation's valid lock has changed. *)
C14_ReentrantForHolder ==
    [][\A o \in Operations, s \in SessionIds :
         (/\ AcquireCalled(ev', o, s)
          /\ activeLocks[o] # NoLock
          /\ ~Expired(activeLocks[o])
          /\ activeLocks[o].sessionId = s)
         => (/\ ev'.outcome \in {"ok", "running"}
             /\ activeLocks'[o] # NoLock
             /\ activeLocks'[o].sessionId = s
             /\ \A q \in Operations \ {o} :
                   ~Expired(activeLocks[q]) => activeLocks'[q] = activeLocks[q])]_vars

(* C14 happens: a session whose wrapped call holds the operation's lock,
   taken earlier and not expired, has just acquired the same operation
   again. *)
C14_Witness ==
    /\ ev.op = "acquireLock"
    /\ ev.outcome = "ok"
    /\ ev.was = 0
    /\ activeLocks[ev.name].sessionId = ev.sid
    /\ \E c \in ExecutionsOf(ev.name) :
          c.sid = ev.sid /\ c.since < now /\ now - c.since < lockTimeout

---------------------------------------------------------------------------
(* Properties of connection identity, opening, expiry and closing *)

GetConnectionCalled(e, s) ==
    /\ e.op = "getConnection"
    /\ e.sid = s
    /\ (issued' # issued \/ filled' # filled)

Closes(e) == e.op \in {"closeConnection", "closeAllConnections"}

(* C15: once getConnection has returned a session's connection, then until
   that connection expires or a close removes it, it stays the session's
   connection, and every getConnection call for the session returns it (the
   same id) and sets its last-activity time to the time of the call. *)
C15_ConnectionIdentityStable ==
    [][\A s \in Sessions :
         LET k == connections[s] IN
         (k # NoConn /\ conns[k].returned /\ isConnectionValid(k))
         => /\ GetConnectionCalled(ev', s)
               => (/\ ev'.outcome = "ok"
                   /\ ev'.conn = k
                   /\ conns'[k].lastActivity = now)
            /\ connections'[s] # k => Closes(ev')]_vars

(* C16: a connection that getConnection created and, after awaiting the
   initialization, returns to its caller has had its own store handle
   opened. *)
C16_OwnHandleOpened ==
    [][(ev'.op = "getConnection" /\ ev'.outcome = "ok" /\ calls' # calls)
       => conns'[ev'.conn].db \in {"open", "closed"}]_vars

(* C17: when a getConnection call is made, no connection that was expired
   at the time of the call is tracked once the call's first segment has
   run. *)
C17_ExpiredPurgedByNextCall ==
    [][(\E s \in Sessions : GetConnectionCalled(ev', s))
       => \A s \in Sessions :
             (connections[s] # NoConn /\ ~isConnectionValid(connections[s]))
             => connections'[s] # connections[s]]_vars

(* C18: when closeConnection(sessionId) has completed, whether or not
   closing the handle threw, the pool holds no connection for sessionId and
   the caller got no error; and closeConnection for a session without a
   connection completes at once and changes nothing in the pool. *)
C18_CloseRemovesAndIsIdempotent ==
    [][\A s \in ActiveSessions :
         /\ (ev'.op = "closeConnection" /\ ev'.sid = s /\ ev'.outcome = "ok"
             /\ (issued' # issued \/ calls' # calls))
            => connections'[s] = NoConn
         /\ (ev'.op = "closeConnection" /\ ev'.sid = s /\ issued' # issued)
            => /\ ev'.outcome \in {"ok", "pending"}
               /\ connections[s] = NoConn
                  => (/\ ev'.outcome = "ok"
                      /\ connections' = connections
                      /\ \A k \in Tracked : conns'[k] = conns[k]
                      /\ initializationPromise' = initializationPromise)]_vars

(* C18 happens: the only session in use has had its connection closed and
   removed, and a second closeConnection for it has just completed. *)
C18_Witness ==
    /\ ev.op = "closeConnection"
    /\ ev.outcome = "ok"
    /\ ev.conn = NoConn
    /\ connections[ev.sid] = NoConn
    /\ used = 1
    /\ \E k \in DOMAIN conns : conns[k].db = "closed"

---------------------------------------------------------------------------
(* Properties of the classifications *)

(* C19: for a present date, with d the floor of (expiry - now) / one day,
   getExpiryStatus reports d as daysUntilExpiry and the status expired when
   d < 0, critical when 0 <= d <= 30, warning when 31 <= d <= 60 and good
   when d > 60; for an absent date it reports good and Infinity. *)
C19_ExpiryClassification ==
    ev.op = "getExpiryStatus" =>
        IF ev.input.present
        THEN \E d \in (0 - MaxDays - 2)..(MaxDays + 1) :
                /\ d * Day <= ev.input.time - now
                /\ ev.input.time - now < (d + 1) * Day
                /\ ev.result.daysUntilExpiry = d
                /\ d < 0 => ev.result.status = "expired"
                /\ (0 <= d /\ d <= 30) => ev.result.status = "critical"
                /\ (31 <= d /\ d <= 60) => ev.result.status = "warning"
                /\ d > 60 => ev.result.status = "good"
        ELSE /\ ev.result.status = "good"
             /\ ev.result.daysUntilExpiry = "Infinity"

(* C19 happens: a date 30 days and a fraction of a day ahead has been
   classified critical. *)
C19_Witness ==
    /\ ev.op = "getExpiryStatus"
    /\ ev.input.present
    /\ ev.input.time - now > 30 * Day
    /\ ev.result.daysUntilExpiry = 30
    /\ ev.result.status = "critical"

(* C20: every medicine is classified critical when currentStock is at most
   half of minStock, otherwise low when currentStock is at most minStock,
   otherwise excess when currentStock exceeds maxStock, otherwise ok. *)
C20_StockClassification ==
    ev.op = "getStockLevels" =>
        /\ DOMAIN ev.result = DOMAIN ev.input
        /\ \A i \in DOMAIN ev.input :
              LET m == ev.input[i]
                  critical == 2 * m.currentStock <= m.minStock
                  low == ~critical /\ m.currentStock <= m.minStock
                  excess == ~critical /\ ~low /\ m.currentStock > m.maxStock
              IN /\ critical <=> ev.result[i].status = "critical"
                 /\ low <=> ev.result[i].status = "low"
                 /\ excess <=> ev.result[i].status = "excess"
                 /\ (~critical /\ ~low /\ ~excess) <=> ev.result[i].status = "ok"

(* C20 happens: a medicine with more stock than its maximum, but no more
   than its minimum, has been classified low. *)
C20_Witness ==
    /\ ev.op = "getStockLevels"
    /\ \E i \in DOMAIN ev.input :
          /\ ev.input[i].currentStock > ev.input[i].maxStock
          /\ ev.input[i].currentStock <= ev.input[i].minStock
          /\ ev.result[i].status = "low"

---------------------------------------------------------------------------
(* Properties of the connections handed out and of those dropped *)

(* C25: every connection that getConnection returns has its isInitialized
   flag set, also when the call was made while an earlier call for the same
   session was still initializing. *)
C25_ReturnedConnectionInitialized ==
    Returned("ok") => conns[ev.conn].isInitialized

(* C26: getConnection never returns a connection whose store handle has
   been closed, also while a closeConnection or closeAllConnections call is
   suspended after closing it. *)
C26_ReturnedHandleNotClosed ==
    Returned("ok") => conns[ev.conn].db # "closed"

(* C27: a connection that leaves the pool, by closeConnection, by the
   expiry purge or by an initialization failure, does not leave with its
   store handle open. *)
C27_DroppedHandlesClosed ==
    [][\A s \in Sessions :
         (/\ connections[s] # NoConn
          /\ connections'[s] # connections[s]
          /\ ev'.op # "closeAllConnections")
         => conns'[connections[s]].db # "open"]_vars

---------------------------------------------------------------------------
(* Properties of the overall status *)

(* C21: getOverallStatus returns Expired whenever the nearest batch expiry
   or the medicine's own expiration date is before now, whatever the stock;
   otherwise Out of Stock when currentStock is 0 or missing, Low Stock when
   currentStock < minStock, Warning when currentStock < 1.5 x minStock, and
   Good otherwise. *)
C21_OverallStatus ==
    ev.op = "getOverallStatus" =>
        LET m == ev.input
            expired == \/ m.nearestExpiry.present /\ m.nearestExpiry.time < now
                       \/ m.expirationDate.present /\ m.expirationDate.time < now
            none == ~m.currentStock.present \/ m.currentStock.value = 0
            c == m.currentStock.value
        IN /\ expired => ev.result = "Expired"
           /\ (~expired /\ none) => ev.result = "Out of Stock"
           /\ (~expired /\ ~none /\ c < m.minStock) => ev.result = "Low Stock"
           /\ (~expired /\ ~none /\ c >= m.minStock /\ 2 * c < 3 * m.minStock)
              => ev.result = "Warning"
           /\ (~expired /\ ~none /\ c >= m.minStock /\ 2 * c >= 3 * m.minStock)
              => ev.result = "Good"

(* C21 happens: a medicine that is out of stock, whose batches are not
   expired but whose own expiration date has passed, is reported Expired. *)
C21_Witness ==
    /\ ev.op = "getOverallStatus"
    /\ ev.result = "Expired"
    /\ ev.input.currentStock.present
    /\ ev.input.currentStock.value = 0
    /\ ev.input.nearestExpiry.present
    /\ ev.input.nearestExpiry.time >= now
    /\ ev.input.expirationDate.present
    /\ ev.input.expirationDate.time < now

---------------------------------------------------------------------------
(* Properties of backup, restore and seed *)

Imported == ev'.op = "importDatabase"

FailureMessages == {"Invalid backup file format", "Failed to parse backup file"}

(* what a wipe leaves: the defaults of a new installation *)
FreshStore ==
    [EmptyStore EXCEPT !.settings = {Key("default", 1)},
                       !.locations = DefaultLocations,
                       !.users = {Key("user", 1)}]

StoreBeforeRecords(clearExisting) == IF clearExisting THEN FreshStore ELSE store

(* the records of a list whose insert into table T fails *)
FailingRecords(T, recs) ==
    {i \in 1..Len(recs) :
        \/ recs[i] = BadKey
        \/ recs[i] \in T
        \/ \E j \in 1..(i - 1) : recs[j] = recs[i]}

Failing(f, before, t) == Cardinality(FailingRecords(before[t], f[t].recs))

(* a well-formed file of the full format: every field is missing or an array *)
FullFormat(f) ==
    /\ f.parses
    /\ f.version
    /\ f.medicines.kind = "array"
    /\ ~(f.exportType = "critical" /\ Truthy(f.data))
    /\ \A i \in 1..Len(ImportedTables) : f[ImportedTables[i]].kind # "scalar"

(* C22: importDatabase given a file that has neither a medicines field nor a
   data field returns a failure result and writes nothing to the store; in
   particular it does not wipe the store when clearExisting is true. *)
C22_MissingFieldsNoWrites ==
    [][(/\ Imported
        /\ ev'.input.parses
        /\ ~Truthy(ev'.input.medicines)
        /\ ~Truthy(ev'.input.data))
       => (~ev'.success /\ store' = store)]_vars

(* C22 happens: a file with a version but neither field was imported with
   clearExisting into a store that holds medicines, and they are still there. *)
C22_Witness ==
    /\ ev.op = "importDatabase"
    /\ ev.input.parses
    /\ ev.input.version
    /\ ~Truthy(ev.input.medicines)
    /\ ~Truthy(ev.input.data)
    /\ ev.clearExisting
    /\ ~ev.success
    /\ store.medicines # {}

(* C23: in a full-format import a record whose insert fails is counted in the
   returned errors and neither stops nor rolls back the import: of n medicine
   records of which k fail, exactly n - k are committed and reported in
   imported.medicines, every failing record of every table is an error, the
   result is not one of the failure results of a thrown error, and success is
   true exactly when there are no errors. *)
C23_PartialImport ==
    [][(Imported /\ FullFormat(ev'.input)) =>
        LET f == ev'.input
            before == StoreBeforeRecords(ev'.clearExisting)
            n == Len(f.medicines.recs)
            k == Failing(f, before, "medicines")
        IN /\ ev'.imported.medicines = n - k
           /\ store'.medicines =
                before.medicines \cup
                    {f.medicines.recs[i] :
                        i \in (1..n) \ FailingRecords(before.medicines, f.medicines.recs)}
           /\ Cardinality(store'.medicines) = Cardinality(before.medicines) + n - k
           /\ ev'.errors = Failing(f, before, "medicines") + Failing(f, before, "batches")
                           + Failing(f, before, "items") + Failing(f, before, "locations")
                           + Failing(f, before, "movements")
           /\ ev'.message \notin FailureMessages
           /\ ev'.success <=> ev'.errors = 0]_vars

(* C23 happens: of two medicine records the first failed and the second was
   committed. *)
C23_Witness ==
    /\ ev.op = "importDatabase"
    /\ FullFormat(ev.input)
    /\ Len(ev.input.medicines.recs) = 2
    /\ ev.input.medicines.recs[1] = BadKey
    /\ ev.input.medicines.recs[2] \in store.medicines
    /\ ev.imported.medicines = 1
    /\ ev.errors = 1
    /\ ~ev.success

(* C24: importing the backup that exportDatabase wrote into a freshly cleared
   store imports as many medicines and batches as the export's
   metadata.medicineCount and metadata.batchCount say. *)
C24_RoundTripCounts ==
    [][(/\ Imported
        /\ file.parses
        /\ ev'.input = file
        /\ ev'.clearExisting \/ store = EmptyStore)
       => (/\ ev'.imported.medicines = file.metadata.medicineCount
           /\ ev'.imported.batches = file.metadata.batchCount)]_vars

(* C24 happens: a backup with medicines and batches was exported, the store
   was cleared, and the import brought all of them back. *)
C24_Witness ==
    /\ ev.op = "importDatabase"
    /\ file.parses
    /\ ev.input = file
    /\ ~ev.clearExisting
    /\ file.metadata.medicineCount > 0
    /\ file.metadata.batchCount > 1
    /\ ev.imported.medicines = file.metadata.medicineCount
    /\ ev.imported.batches = file.metadata.batchCount
    /\ Cardinality(store.batches) = file.metadata.batchCount
    /\ store.locations = {file.locations.recs[i] : i \in 1..Len(file.locations.recs)}

(* C28: whenever importDatabase returns success = false with the message
   'Invalid backup file format' or 'Failed to parse backup file', the store
   holds exactly what it held before the call, also when clearExisting is
   true. *)
C28_FailedImportLeavesStore ==
    [][(Imported /\ ~ev'.success /\ ev'.message \in FailureMessages)
       => store' = store]_vars

(* C29: restoring a full backup over the database it was taken from, which
   had been initialized with the default locations, with clearExisting
   returns success with no errors and imports every exported location. *)
C29_RestoreOverSource ==
    [][(/\ Imported
        /\ file.parses
        /\ ev'.input = file
        /\ ev'.clearExisting
        /\ \E m \in BOOLEAN : file = Exported(store, m)
        /\ DefaultLocations \subseteq store.locations)
       => (/\ ev'.success
           /\ ev'.errors = 0
           /\ ev'.imported.locations = file.metadata.locationCount)]_vars

SeedRan ==
    \/ ev'.op = "seedDatabase"
    \/ ev'.op = "initApp" /\ store.medicines = {}

(* C30: seedDatabase run on a store that still holds the locations of an
   earlier seed completes without error and leaves the full seeded set of
   medicines, batches and items. *)
C30_SeedRepeatable ==
    [][(SeedRan /\ SeedLocations \subseteq store.locations)
       => (/\ ev'.outcome = "ok"
           /\ store'.medicines = {Key("med", i) : i \in 1..NumFormulary}
           /\ Cardinality(store'.batches) \in BatchCounts
           /\ Cardinality(store'.items) \in ItemCounts(Cardinality(store'.batches)))]_vars

=============================================================================
